---- MODULE Spec2Model ----
(***************************************************************************)
(* Model of the market analysis crew (src/market_analysis_crew.py):        *)
(* the global agent_messages queue, AgentCallback, the retry-decorated     *)
(* EnhancedAgent.execute_task, MarketAnalysisCrew.analyze_stock with its   *)
(* sequential crew of five tasks, _parse_results, the tool wrappers over    *)
(* src/financial_tools.py, RiskManager, and an observer thread calling     *)
(* MarketAnalysisCrew.get_agent_messages.                                  *)
(***************************************************************************)
EXTENDS Integers, Sequences, FiniteSets, TLC

VARIABLES
    agent_messages,   \* the global queue.Queue, head first
    pc,               \* position of the thread running analyze_stock
    run,              \* number of analyze_stock calls started so far
    ticker,           \* argument of the current analyze_stock call
    agents,           \* roles of the agents built by create_agents
    tasks,            \* tasks built by create_tasks, in list order
    idx,              \* index of the task the crew is executing
    attempt,          \* tenacity's attempt number within the current execute_task
    context,          \* context handed to the current execute_task
    task_outputs,     \* outputs of the tasks completed in this kickoff
    result,           \* result of the parent execute_task / of crew.kickoff (0 or 1 texts)
    exc,              \* exception in flight ("none" when there is none)
    analysis_results, \* value returned by _parse_results, then updated
    outcome,          \* how the last analyze_stock call ended
    clock,            \* number of messages put during the current call
    faults,           \* model-call failures injected so far
    trace,            \* per execute_task call: what the call did, in order
    given,            \* context each task of this kickoff was given
    fetches,          \* tickers analyze_stock itself has asked the stock_data tool for
    opc,              \* position of the observer thread in get_agent_messages
    messages,         \* local list of get_agent_messages
    drains,           \* get_agent_messages calls started so far
    published,        \* messages put during the current call, in order
    received,         \* messages of the current call the observer has got, in order
    cleared,          \* number of messages removed by analyze_stock's clearing loop
    snapshot,         \* the queue when the current drain started, while no other
                      \* thread has touched the queue since (0 or 1 queues)
    quiet,            \* the previous drain returned and nothing was put since
    drainRun,         \* run whose clearing loop had finished when the drain started
    stock_data,       \* what the stock_data tool returned to analyze_stock (0 or 1)
    risk_metrics,     \* how assess_market_risk ended in analyze_stock (0 or 1 outcomes)
    waits,            \* waits of the retry decorator within the current execute_task
    tier_call         \* a direct evaluation of the risk_assessment expression

vars == << agent_messages, pc, run, ticker, agents, tasks, idx, attempt, context,
           task_outputs, result, exc, analysis_results, outcome, clock, faults,
           trace, given, fetches, opc, messages, drains, published, received,
           cleared, snapshot, quiet, drainRun, stock_data, risk_metrics, waits,
           tier_call >>

----------------------------------------------------------------------------
(* Bounds of the model *)

MaxRuns == 2
MaxFaults == 3
MaxDrains == 2
MaxBacklog == 3
\* with an observer thread
MaxConcFaults == 1
MaxConcBacklog == 1
\* hundredths, for the direct evaluation of risk_assessment
MaxVolatility == 60

(* Program constants *)

StopAfterAttempt == 3
NumTasks == 5
TradingDays == 252
WaitMultiplier == 1
WaitMin == 4
WaitMax == 10
ExpBase == 2

----------------------------------------------------------------------------
(* Values *)

None == << >>
Some(v) == << v >>

\* dashboard.py passes the text of an input field on: it may be empty
Tickers == {"AAPL", "MSFT", ""}
\* with an observer thread
ConcTickers == {"AAPL"}

\* create_agents: the five roles, in the order of the returned list
Roles ==
    << "Market Intelligence Officer", "Technical Analysis Specialist",
       "Fundamental Analysis Expert", "Risk Management Specialist",
       "Portfolio Strategy Expert" >>

\* create_tasks: first line of each task's description, in the order of the list
Descriptions ==
    << "Conduct comprehensive market research for",
       "Perform advanced technical analysis for",
       "Conduct detailed fundamental analysis for",
       "Perform comprehensive risk assessment for",
       "Develop comprehensive investment strategy for" >>

\* create_tasks: first key of each task's expected_output
ExpectedKeys ==
    << "industry_analysis", "trend_analysis", "financial_analysis",
       "market_risk", "investment_thesis" >>

Range(s) == { s[i] : i \in DOMAIN s }

\* A text is a sequence of tokens. "{" k1 .. kn "}" is a JSON object with the
\* members k1..kn, "[" "]" a JSON array, "42" a JSON number, "'text'" a JSON
\* string, "null" the JSON null; anything else is not JSON.
NotJson == << "not", "json" >>
ObjectText(k) == << "{", k, "}" >>
ArrayText == << "[", "]" >>
NumberText == << "42" >>
StringText == << "'text'" >>
NullText == << "null" >>

\* What the model may answer to task i
ModelReplies(i) ==
    IF i < NumTasks
    THEN { ObjectText(ExpectedKeys[i]), NotJson }
    ELSE { ObjectText(ExpectedKeys[i]), ObjectText("risk_metrics"), ArrayText,
           NumberText, StringText, NullText, NotJson }

\* create_tasks with the first two tasks of the returned list exchanged
create_tasks_swapped(t, ags) ==
    [ i \in 1..NumTasks |->
        LET j == IF i = 1 THEN 2 ELSE IF i = 2 THEN 1 ELSE i
        IN  [ description |-> << Descriptions[j], t >>,
              expected_output |-> ExpectedKeys[j],
              agent |-> ags[j] ] ]

\* The task list built by create_tasks(t, agents)
create_tasks(t, ags) ==
    [ i \in 1..NumTasks |->
        [ description |-> << Descriptions[i], t >>,
          expected_output |-> ExpectedKeys[i],
          agent |-> ags[i] ] ]

----------------------------------------------------------------------------
(* AgentCallback *)

Message(ts, agent_name, message, status, res) ==
    [ timestamp |-> ts, agent |-> agent_name, message |-> message,
      status |-> status, result |-> res ]

\* _add_message: agent_messages.put(...)
add_message(q, m) == Append(q, m)

\* A get that takes the newest message instead of the oldest
QueueGet_lifo(q) == [ item |-> q[Len(q)], rest |-> SubSeq(q, 1, Len(q) - 1) ]

\* queue.Queue.get on a non-empty queue: the head, and the rest
QueueGet(q) == [ item |-> Head(q), rest |-> Tail(q) ]

on_start(ts, agent_name, description) ==
    Message(ts, agent_name, << "Starting task: " >> \o description, "start", None)

\* on_progress that reports the status "complete"
on_progress_complete(ts, agent_name, message) ==
    Message(ts, agent_name, message, "complete", None)

on_progress(ts, agent_name, message) ==
    Message(ts, agent_name, message, "progress", None)

\* on_complete that forgets to pass the result on
on_complete_noresult(ts, agent_name, res) ==
    Message(ts, agent_name, << "Task completed" >>, "complete", None)

on_complete(ts, agent_name, res) ==
    Message(ts, agent_name, << "Task completed" >>, "complete", Some(res))

----------------------------------------------------------------------------
(* _parse_results and the risk metrics *)

IsObject(t) ==
    /\ Len(t) >= 2
    /\ t[1] = "{"
    /\ t[Len(t)] = "}"
    /\ \A i \in 2..(Len(t) - 1) :
         t[i] \in Range(ExpectedKeys) \cup {"error", "risk_metrics"}

IsArray(t) == t = ArrayText

\* json.loads raises on a text that is not JSON
JsonDecodable(t) == IsObject(t) \/ IsArray(t) \/ t \in {NumberText, StringText, NullText}

NoItems == [ k \in {} |-> << >> ]

\* The value of a member of a decoded JSON object
JsonMember == [ type |-> "json", items |-> NoItems ]

\* json.loads: a dict for an object (one item per member), a list for an array,
\* an int, a str or None for the other texts json.loads accepts
json_loads(t) ==
    IF IsObject(t)
    THEN [ type |-> "dict",
           items |-> [ k \in { t[i] : i \in 2..(Len(t) - 1) } |-> JsonMember ] ]
    ELSE IF IsArray(t) THEN [ type |-> "list", items |-> NoItems ]
    ELSE IF t = NumberText THEN [ type |-> "int", items |-> NoItems ]
    ELSE IF t = StringText THEN [ type |-> "str", items |-> NoItems ]
    ELSE [ type |-> "none", items |-> NoItems ]

\* A _parse_results whose fallback forgets the text
parse_results_noraw(t) ==
    IF JsonDecodable(t)
    THEN json_loads(t)
    ELSE [ type |-> "dict",
           items |-> [ k \in {"raw_analysis", "timestamp"} |->
                         IF k = "raw_analysis" THEN << >> ELSE << "isoformat" >> ] ]

\* _parse_results: json.loads(result), or the raw text with a timestamp
parse_results(t) ==
    IF JsonDecodable(t)
    THEN json_loads(t)
    ELSE [ type |-> "dict",
           items |-> [ k \in {"raw_analysis", "timestamp"} |->
                         IF k = "raw_analysis" THEN t ELSE << "isoformat" >> ] ]

PyNone == [ type |-> "none", items |-> NoItems ]

\* An assignment that replaces the whole dict by the one item
SetItem_only(d, key, value) ==
    [ type |-> "dict", items |-> [ k \in {key} |-> value ] ]

\* d[key] = value on a dict
SetItem(d, key, value) ==
    [ type |-> "dict",
      items |-> [ k \in (DOMAIN d.items) \cup {key} |->
                    IF k = key THEN value ELSE d.items[k] ] ]

\* How a call ends: it returns a value or raises an exception
Return(v) == [ kind |-> "return", value |-> v, exc |-> "none" ]
Raise(e) == [ kind |-> "raise", value |-> PyNone, exc |-> e ]

\* A dict literal with the given keys; val[k] is the value under k
Dict(keys, val) == [ type |-> "dict", items |-> [ k \in keys |-> val[k] ] ]

\* {"error": text}
ErrorDict(text) == Dict({"error"}, [ k \in {"error"} |-> text ])

----------------------------------------------------------------------------
(* financial_tools.py and the tool wrappers of _init_tools *)

\* What yfinance may do for a ticker: raise, or give a year of closing prices
\* (none, one, two or three of them here)
YfOutcomes ==
    { [ raises |-> TRUE, close |-> << >> ],
      [ raises |-> FALSE, close |-> << >> ],
      [ raises |-> FALSE, close |-> << 50 >> ],
      [ raises |-> FALSE, close |-> << 50, 51 >> ],
      [ raises |-> FALSE, close |-> << 20, 21, 22 >> ],
      [ raises |-> FALSE, close |-> << 50, 51, 51 >> ],
      [ raises |-> FALSE, close |-> << 10, 11, 10 >> ] }

\* with an observer thread
ConcYfOutcomes == { [ raises |-> TRUE, close |-> << >> ] }

StockDataKeys ==
    { "current_price", "market_cap", "volume", "pe_ratio", "dividend_yield",
      "price_history", "volume_history", "dates" }

FinancialMetricsKeys == { "profitability", "valuation", "growth", "financial_health" }

\* stock_data_tool(args): every Exception is caught inside
stock_data_tool(args, yf) ==
    IF args.ticker = ""
    THEN Return(ErrorDict(<< "No ticker provided" >>))
    ELSE IF yf.raises
    THEN Return(ErrorDict(<< "Failed to fetch stock data: ", "YFError" >>))
    ELSE Return(Dict(StockDataKeys,
                     [ k \in StockDataKeys |->
                         IF k = "price_history" THEN yf.close ELSE << "info" >> ]))

\* financial_metrics_tool(args)
financial_metrics_tool(args, yf) ==
    IF args.ticker = ""
    THEN Return(ErrorDict(<< "No ticker provided" >>))
    ELSE IF yf.raises
    THEN Return(ErrorDict(<< "Failed to fetch financial metrics: ", "YFError" >>))
    ELSE Return(Dict(FinancialMetricsKeys, [ k \in FinancialMetricsKeys |-> << "info" >> ]))

\* stock_data_wrapper(ticker): try: return stock_data_tool({"ticker": ticker})
\* except Exception as e: return {"error": ...}
stock_data_wrapper(t, yf) ==
    LET r == stock_data_tool([ ticker |-> t ], yf)
    IN  IF r.kind = "raise"
        THEN Return(ErrorDict(<< "Failed to fetch stock data: ", r.exc >>))
        ELSE r

financial_metrics_wrapper(t, yf) ==
    LET r == financial_metrics_tool([ ticker |-> t ], yf)
    IN  IF r.kind = "raise"
        THEN Return(ErrorDict(<< "Failed to fetch financial metrics: ", r.exc >>))
        ELSE r

\* search_wrapper(query): the text found, or "Search failed: ..." when
\* DuckDuckGoSearchRun raises
search_wrapper(query, search_raises) ==
    IF search_raises
    THEN Return(<< "Search failed: ", "SearchError" >>)
    ELSE Return(<< "found", query >>)

----------------------------------------------------------------------------
(* RiskManager *)

\* A volatility is a float that is not negative, or NaN. The model keeps the
\* square of it, as the fraction num/den: returns.std() * np.sqrt(252) is the
\* square root of a fraction, and v > t is v*v > t*t for such v and t > 0.
NaN == [ nan |-> TRUE, num |-> 0, den |-> 1 ]
Squared(n, d) == [ nan |-> FALSE, num |-> n, den |-> d ]

\* The float n/d for n >= 0, d > 0
Fraction(n, d) == Squared(n * n, d * d)

\* v > t, false when v is NaN
Greater(v, t) == ~v.nan /\ v.num * t.den > t.num * v.den

RECURSIVE Sum(_)
Sum(s) == IF s = << >> THEN 0 ELSE Head(s) + Sum(Tail(s))

RECURSIVE Product(_)
Product(s) == IF s = << >> THEN 1 ELSE Head(s) * Product(Tail(s))

\* pd.Series(prices).pct_change().dropna(), each return multiplied by the product
\* d of all the prices but the last to make it an integer
ScaledReturns(prices, d) ==
    [ i \in 1..(Len(prices) - 1) |-> (prices[i + 1] - prices[i]) * (d \div prices[i]) ]

\* calculate_volatility: returns.std() * np.sqrt(252). std is the sample standard
\* deviation, NaN for fewer than two returns.
calculate_volatility(prices) ==
    LET n == Len(prices) - 1
    IN  IF n < 2
        THEN NaN
        ELSE LET d == Product(SubSeq(prices, 1, n))
                 r == ScaledReturns(prices, d)
                 s == Sum(r)
                 dev == [ i \in 1..n |-> (n * r[i] - s) * (n * r[i] - s) ]
             IN  Squared(TradingDays * Sum(dev), n * n * d * d * (n - 1))

\* What the numpy of the build does for np.percentile of no values
NumpyBuilds == { "percentile_raises", "percentile_nan" }

\* calculate_var: np.percentile(returns, 5)
calculate_var(prices, np) ==
    IF Len(prices) >= 2
    THEN Return(<< "float" >>)
    ELSE IF np = "percentile_raises" THEN Raise("IndexError") ELSE Return(<< "nan" >>)

\* calculate_sharpe_ratio: np.sqrt(252) * excess_returns.mean() / returns.std()
calculate_sharpe_ratio(prices) ==
    IF calculate_volatility(prices).nan THEN << "nan" >> ELSE << "float" >>

HighVolatility == Fraction(3, 10)
MediumVolatility == Fraction(3, 20)

\* The thresholds the other way round
risk_assessment_swapped(v) ==
    IF Greater(v, MediumVolatility) THEN "high"
    ELSE IF Greater(v, HighVolatility) THEN "medium"
    ELSE "low"

\* "high" if volatility > 0.3 else "medium" if volatility > 0.15 else "low"
risk_assessment(v) ==
    IF Greater(v, HighVolatility) THEN "high"
    ELSE IF Greater(v, MediumVolatility) THEN "medium"
    ELSE "low"

RiskKeys == { "volatility", "value_at_risk", "sharpe_ratio", "beta", "risk_assessment" }

\* market_data.get(key, default)
DictGet(d, key, default) == IF key \in DOMAIN d.items THEN d.items[key] ELSE default

\* RiskManager.assess_market_risk
assess_market_risk(market_data, np) ==
    LET prices == DictGet(market_data, "price_history", << >>)
    IN  IF prices = << >>
        THEN Return(ErrorDict(<< "Insufficient price data" >>))
        ELSE IF calculate_var(prices, np).kind = "raise"
        THEN Raise(calculate_var(prices, np).exc)
        ELSE Return(Dict(RiskKeys,
                 [ k \in RiskKeys |->
                     CASE k = "volatility" -> calculate_volatility(prices)
                       [] k = "value_at_risk" -> calculate_var(prices, np).value
                       [] k = "sharpe_ratio" -> calculate_sharpe_ratio(prices)
                       [] k = "beta" -> DictGet(market_data, "beta", << "None" >>)
                       [] k = "risk_assessment" ->
                            risk_assessment(calculate_volatility(prices)) ]))

----------------------------------------------------------------------------
(* The retry decorator of EnhancedAgent.execute_task *)

\* retry_if_exception_type(APIConnectionError)
Retryable(e) == e = "APIConnectionError"

\* stop_after_attempt(3)
StopNow(n) == n >= StopAfterAttempt

RECURSIVE Power(_, _)
Power(b, e) == IF e = 0 THEN 1 ELSE b * Power(b, e - 1)

Min(a, b) == IF a < b THEN a ELSE b
Max(a, b) == IF a > b THEN a ELSE b

\* An exponential wait without the min and max of the decorator
wait_exponential_unclamped(attempt_number) ==
    WaitMultiplier * Power(ExpBase, attempt_number - 1)

\* wait_exponential(multiplier=1, min=4, max=10), after the attempt of that number:
\* multiplier * exp_base ** (attempt_number - 1), kept between min and max
wait_exponential(attempt_number) ==
    Max(Max(0, WaitMin),
        Min(WaitMultiplier * Power(ExpBase, attempt_number - 1), WaitMax))

\* reraise=False: tenacity wraps the last exception in a RetryError
Reraised_wrapped(e) == "RetryError"

\* reraise=True: when the attempts are used up, the exception that leaves the
\* decorated call is the one the last attempt raised
Reraised(e) == e

\* Crew with Process.sequential and tasks without a context of their own: the
\* context of a task is made of the outputs of the tasks executed before it
TaskContext(outs) == outs

----------------------------------------------------------------------------
(* Initial state: the module is loaded and a MarketAnalysisCrew is built *)

NoOutcome == [ kind |-> "none", value |-> PyNone, exc |-> "none" ]

InitProgram ==
    /\ agent_messages = << >>
    /\ pc = "idle"
    /\ run = 0
    /\ ticker = ""
    /\ agents = << >>
    /\ tasks = << >>
    /\ idx = 0
    /\ attempt = 0
    /\ context = << >>
    /\ task_outputs = << >>
    /\ result = None
    /\ exc = "none"
    /\ analysis_results = PyNone
    /\ outcome = NoOutcome
    /\ clock = 0
    /\ faults = 0
    /\ trace = << >>
    /\ given = << >>
    /\ fetches = << >>
    /\ opc = "idle"
    /\ messages = << >>
    /\ drains = 0
    /\ published = << >>
    /\ received = << >>
    /\ cleared = 0
    /\ snapshot = None
    /\ quiet = FALSE
    /\ drainRun = 0
    /\ stock_data = None
    /\ risk_metrics = None
    /\ waits = << >>

Init ==
    /\ InitProgram
    /\ tier_call = None

\* One call of AgentCallback._add_message by the analysing thread
Put(m) ==
    /\ agent_messages' = add_message(agent_messages, m)
    /\ clock' = clock + 1
    /\ published' = Append(published, m)
    /\ snapshot' = None
    /\ quiet' = FALSE

Now == << run, clock + 1 >>

----------------------------------------------------------------------------
(* MarketAnalysisCrew.analyze_stock *)

\* The call itself: a caller passes a ticker. The model follows the callers that
\* ask for another analysis while at most backlog messages wait in the queue.
AnalyzeStock(t, backlog) ==
    /\ pc = "idle"
    /\ run < MaxRuns
    /\ Len(agent_messages) <= backlog
    /\ run' = run + 1
    /\ ticker' = t
    /\ pc' = "clear_check"
    /\ agents' = << >>
    /\ tasks' = << >>
    /\ idx' = 0
    /\ attempt' = 0
    /\ context' = << >>
    /\ task_outputs' = << >>
    /\ result' = None
    /\ exc' = "none"
    /\ analysis_results' = PyNone
    /\ outcome' = NoOutcome
    /\ clock' = 0
    /\ trace' = << >>
    /\ given' = << >>
    /\ fetches' = << >>
    /\ published' = << >>
    /\ received' = << >>
    /\ cleared' = 0
    /\ stock_data' = None
    /\ risk_metrics' = None
    /\ waits' = << >>
    /\ UNCHANGED << agent_messages, faults, opc, messages, drains, snapshot, quiet,
                    drainRun, tier_call >>

\* analyze_stock without its clearing loop
ClearCheck_skip ==
    /\ pc = "clear_check"
    /\ pc' = "create"
    /\ UNCHANGED << agent_messages, run, tier_call, ticker, agents, tasks, idx, attempt,
                    context, task_outputs, result, exc, analysis_results, outcome,
                    clock, faults, trace, waits, given, fetches, stock_data,
                    risk_metrics, published, cleared, quiet >>
    /\ UNCHANGED << opc, messages, drains, received, snapshot, drainRun >>

\* while not agent_messages.empty():
ClearCheck ==
    /\ pc = "clear_check"
    /\ pc' = IF agent_messages = << >> THEN "create" ELSE "clear_get"
    /\ UNCHANGED << agent_messages, run, tier_call, ticker, agents, tasks, idx, attempt,
                    context, task_outputs, result, exc, analysis_results, outcome,
                    clock, faults, trace, waits, given, fetches, stock_data,
                    risk_metrics, published, cleared, quiet >>
    /\ UNCHANGED << opc, messages, drains, received, snapshot, drainRun >>

\*     agent_messages.get()     (blocks while the queue is empty)
ClearGet ==
    /\ pc = "clear_get"
    /\ agent_messages # << >>
    /\ agent_messages' = QueueGet(agent_messages).rest
    /\ cleared' = cleared + 1
    /\ snapshot' = None
    /\ pc' = "clear_check"
    /\ UNCHANGED << run, tier_call, ticker, agents, tasks, idx, attempt, context,
                    task_outputs, result, exc, analysis_results, outcome, clock, faults,
                    trace, waits, given, fetches, stock_data, risk_metrics, published,
                    quiet >>
    /\ UNCHANGED << opc, messages, drains, received, drainRun >>

\* create_agents, create_tasks, Crew(...), and the start of crew.kickoff()
Create ==
    /\ pc = "create"
    /\ \/ /\ agents' = Roles
          /\ tasks' = create_tasks(ticker, Roles)
          /\ idx' = 1
          /\ attempt' = 1
          /\ context' = TaskContext(<< >>)
          /\ pc' = "exec_start"
          /\ exc' = exc
       \/ /\ exc' = "AgentConstructionError"
          /\ pc' = "except"
          /\ UNCHANGED << agents, tasks, idx, attempt, context >>
       \/ /\ agents' = Roles
          /\ exc' = "TaskConstructionError"
          /\ pc' = "except"
          /\ UNCHANGED << tasks, idx, attempt, context >>
    /\ UNCHANGED << agent_messages, run, tier_call, ticker, task_outputs, result,
                    analysis_results, outcome, clock, faults, trace, waits, given,
                    fetches, stock_data, risk_metrics, published, cleared, quiet >>
    /\ UNCHANGED << opc, messages, drains, received, snapshot, drainRun >>

----------------------------------------------------------------------------
(* EnhancedAgent.execute_task, one attempt after the other *)

ObserverUnchanged ==
    UNCHANGED << opc, messages, drains, received, drainRun >>

\* self._callback.on_start(task.description)
ExecStart ==
    /\ pc = "exec_start"
    /\ Put(on_start(Now, tasks[idx].agent, tasks[idx].description))
    /\ trace' = IF attempt = 1 THEN << "put:start" >> ELSE Append(trace, "put:start")
    /\ given' = IF attempt = 1 THEN Append(given, context) ELSE given
    /\ waits' = IF attempt = 1 THEN << >> ELSE waits
    /\ pc' = "exec_progress"
    /\ UNCHANGED << run, tier_call, ticker, agents, tasks, idx, attempt, context,
                    task_outputs, result, exc, analysis_results, outcome, faults,
                    fetches, stock_data, risk_metrics, cleared >>
    /\ ObserverUnchanged

\* self._callback.on_progress("Analyzing data...")
ExecProgress ==
    /\ pc = "exec_progress"
    /\ Put(on_progress(Now, tasks[idx].agent, << "Analyzing data..." >>))
    /\ trace' = Append(trace, "put:progress")
    /\ UNCHANGED waits
    /\ pc' = "exec_call"
    /\ UNCHANGED << run, tier_call, ticker, agents, tasks, idx, attempt, context,
                    task_outputs, result, exc, analysis_results, outcome, faults, given,
                    fetches, stock_data, risk_metrics, cleared >>
    /\ ObserverUnchanged

\* result = super().execute_task(task=task, context=context): the model answers,
\* or the call raises APIConnectionError or another exception. At most maxf calls
\* of a behaviour fail or answer something else than the expected JSON object.
ExecCall(maxf) ==
    /\ pc = "exec_call"
    /\ \/ \E r \in ModelReplies(idx) :
            /\ r # ObjectText(ExpectedKeys[idx]) => faults < maxf
            /\ faults' = IF r = ObjectText(ExpectedKeys[idx]) THEN faults ELSE faults + 1
            /\ result' = Some(r)
            /\ pc' = "exec_complete"
            /\ UNCHANGED exc
       \/ \E e \in {"APIConnectionError", "RateLimitError"} :
            /\ faults < maxf
            /\ faults' = faults + 1
            /\ exc' = e
            /\ pc' = "exec_error"
            /\ UNCHANGED result
    /\ trace' = Append(trace, "call")
    /\ UNCHANGED waits
    /\ UNCHANGED << agent_messages, run, tier_call, ticker, agents, tasks, idx, attempt,
                    context, task_outputs, analysis_results, outcome, clock, given,
                    fetches, stock_data, risk_metrics, published, cleared, quiet,
                    snapshot >>
    /\ ObserverUnchanged

\* self._callback.on_complete(result); return result. The crew records the output
\* and goes on to the next task, or kickoff returns the last output.
ExecComplete ==
    /\ pc = "exec_complete"
    /\ Put(on_complete(Now, tasks[idx].agent, result[1]))
    /\ trace' = trace \o << "put:complete", "return" >>
    /\ UNCHANGED waits
    /\ task_outputs' = Append(task_outputs, result[1])
    /\ IF idx < NumTasks
       THEN /\ idx' = idx + 1
            /\ attempt' = 1
            /\ context' = TaskContext(task_outputs')
            /\ pc' = "exec_start"
       ELSE /\ pc' = "parse"
            /\ UNCHANGED << idx, attempt, context >>
    /\ UNCHANGED << run, tier_call, ticker, agents, tasks, result, exc,
                    analysis_results, outcome, faults, given, fetches, stock_data,
                    risk_metrics, cleared >>
    /\ ObserverUnchanged

\* except Exception as e: self._callback.on_progress(f"Error: {str(e)}"); raise
\* and then the decorator: another attempt after a wait, or the exception leaves
ExecError ==
    /\ pc = "exec_error"
    /\ Put(on_progress(Now, tasks[idx].agent, << "Error: ", exc >>))
    /\ IF Retryable(exc) /\ ~StopNow(attempt)
       THEN /\ attempt' = attempt + 1
            /\ exc' = "none"
            /\ pc' = "exec_start"
            /\ trace' = trace \o << "put:error", "wait" >>
            /\ waits' = Append(waits, wait_exponential(attempt))
       ELSE /\ exc' = IF Retryable(exc) THEN Reraised(exc) ELSE exc
            /\ pc' = "except"
            /\ trace' = trace \o << "put:error", "raise" >>
            /\ UNCHANGED << attempt, waits >>
    /\ UNCHANGED << run, tier_call, ticker, agents, tasks, idx, context, task_outputs,
                    result, analysis_results, outcome, faults, given, fetches,
                    stock_data, risk_metrics, cleared >>
    /\ ObserverUnchanged

----------------------------------------------------------------------------
(* analyze_stock after the pipeline *)

\* analysis_results = self._parse_results(result)
Parse ==
    /\ pc = "parse"
    /\ analysis_results' = parse_results(result[1])
    /\ pc' = "risk"
    /\ UNCHANGED << agent_messages, run, tier_call, ticker, agents, tasks, idx, attempt,
                    context, task_outputs, result, exc, outcome, clock, faults, trace,
                    waits, given, fetches, stock_data, risk_metrics, published, cleared,
                    quiet, snapshot >>
    /\ ObserverUnchanged

\* stock_data = self.tools["stock_data"].func(ticker)
\* risk_metrics = self.risk_manager.assess_market_risk(stock_data)
\* analysis_results["risk_metrics"] = risk_metrics; return analysis_results
Risk(yfs) ==
    /\ pc = "risk"
    /\ fetches' = Append(fetches, ticker)
    /\ \E yf \in yfs, np \in NumpyBuilds :
         LET fetched == stock_data_wrapper(ticker, yf)
             assessed == assess_market_risk(fetched.value, np)
         IN  IF fetched.kind = "raise"
             THEN /\ exc' = fetched.exc
                  /\ pc' = "except"
                  /\ UNCHANGED << stock_data, risk_metrics, analysis_results, outcome >>
             ELSE /\ stock_data' = Some(fetched.value)
                  /\ risk_metrics' = Some(assessed)
                  /\ IF assessed.kind = "raise"
                     THEN /\ exc' = assessed.exc
                          /\ pc' = "except"
                          /\ UNCHANGED << analysis_results, outcome >>
                     ELSE IF analysis_results.type = "dict"
                     THEN /\ analysis_results' =
                               SetItem(analysis_results, "risk_metrics", assessed.value)
                          /\ outcome' = Return(analysis_results')
                          /\ pc' = "idle"
                          /\ UNCHANGED exc
                     ELSE /\ exc' = "TypeError"
                          /\ pc' = "except"
                          /\ UNCHANGED << analysis_results, outcome >>
    /\ UNCHANGED << agent_messages, run, tier_call, ticker, agents, tasks, idx, attempt,
                    context, task_outputs, result, clock, faults, trace, waits, given,
                    published, cleared, quiet, snapshot >>
    /\ ObserverUnchanged

\* except Exception as e: logger.error(...); raise
Except ==
    /\ pc = "except"
    /\ outcome' = Raise(exc)
    /\ pc' = "idle"
    /\ UNCHANGED << agent_messages, run, tier_call, ticker, agents, tasks, idx, attempt,
                    context, task_outputs, result, exc, analysis_results, clock, faults,
                    trace, waits, given, fetches, stock_data, risk_metrics, published,
                    cleared, quiet, snapshot >>
    /\ ObserverUnchanged

----------------------------------------------------------------------------
(* MarketAnalysisCrew.get_agent_messages, called by an observer thread *)

MainUnchanged ==
    UNCHANGED << pc, run, tier_call, ticker, agents, tasks, idx, attempt, context,
                 task_outputs, result, exc, analysis_results, outcome, clock, faults,
                 trace, waits, given, fetches, stock_data, risk_metrics, published,
                 cleared >>

\* The latest run whose clearing loop has finished
ClearedRun == IF pc \in {"clear_check", "clear_get"} THEN run - 1 ELSE run

\* messages = []
GetAgentMessages ==
    /\ opc = "idle"
    /\ drains < MaxDrains
    /\ drains' = drains + 1
    /\ messages' = << >>
    /\ snapshot' = Some(agent_messages)
    /\ drainRun' = ClearedRun
    /\ opc' = "check"
    /\ UNCHANGED << agent_messages, received, quiet >>
    /\ MainUnchanged

\* get_agent_messages with an if in place of the while: it takes one message
DrainCheck_once ==
    /\ opc = "check"
    /\ opc' = IF agent_messages = << >> \/ messages # << >> THEN "ret" ELSE "get"
    /\ UNCHANGED << agent_messages, messages, drains, received, snapshot, quiet,
                    drainRun >>
    /\ UNCHANGED << pc, run, tier_call, ticker, agents, tasks, idx, attempt, context,
                    task_outputs, result, exc, analysis_results, outcome, clock, faults,
                    trace, waits, given, fetches, stock_data, risk_metrics, published,
                    cleared >>

\* while not agent_messages.empty():   ... return messages
DrainCheck ==
    /\ opc = "check"
    /\ opc' = IF agent_messages = << >> THEN "ret" ELSE "get"
    /\ UNCHANGED << agent_messages, messages, drains, received, snapshot, quiet,
                    drainRun >>
    /\ MainUnchanged

\*     messages.append(agent_messages.get())     (blocks while the queue is empty)
DrainGet ==
    /\ opc = "get"
    /\ agent_messages # << >>
    /\ LET got == QueueGet(agent_messages)
       IN  /\ agent_messages' = got.rest
           /\ messages' = Append(messages, got.item)
           /\ received' = IF got.item.timestamp[1] = run
                          THEN Append(received, got.item)
                          ELSE received
    /\ opc' = "check"
    /\ UNCHANGED << drains, snapshot, quiet, drainRun >>
    /\ MainUnchanged

\* return messages: the caller has the list
DrainReturn ==
    /\ opc = "ret"
    /\ opc' = "idle"
    /\ messages' = << >>
    /\ quiet' = (snapshot # None)
    /\ snapshot' = None
    /\ UNCHANGED << agent_messages, drains, received, drainRun >>
    /\ MainUnchanged

----------------------------------------------------------------------------


\* The thread that calls analyze_stock
Analyst(maxf, backlog, tickers, yfs) ==
    \/ \E t \in tickers : AnalyzeStock(t, backlog)
    \/ ClearCheck
    \/ ClearGet
    \/ Create
    \/ ExecStart
    \/ ExecProgress
    \/ ExecCall(maxf)
    \/ ExecComplete
    \/ ExecError
    \/ Parse
    \/ Risk(yfs)
    \/ Except

\* The thread that calls get_agent_messages
Observer ==
    \/ GetAgentMessages
    \/ DrainCheck
    \/ DrainGet
    \/ DrainReturn

\* The program as dashboard.py runs it: nothing calls get_agent_messages
Next == Analyst(MaxFaults, MaxBacklog, Tickers, YfOutcomes)

Spec == Init /\ [][Next]_vars

\* The program with an observer thread draining the queue
NextConc == Analyst(MaxConcFaults, MaxConcBacklog, ConcTickers, ConcYfOutcomes) \/ Observer

SpecConc == Init /\ [][NextConc]_vars

----------------------------------------------------------------------------
(* The risk_assessment expression of assess_market_risk, evaluated directly *)

\* Volatilities 0.00, 0.01, ... and NaN
Volatilities == { Fraction(n, 100) : n \in 0..MaxVolatility } \cup { NaN }

InitTier ==
    /\ InitProgram
    /\ \E v \in Volatilities : tier_call = Some([ volatility |-> v, tier |-> None ])

RiskAssessment ==
    /\ tier_call # None
    /\ tier_call[1].tier = None
    /\ tier_call' =
         Some([ tier_call[1] EXCEPT
                  !.tier = Some(risk_assessment(tier_call[1].volatility)) ])
    /\ UNCHANGED << agent_messages, pc, run, ticker, agents, tasks, idx, attempt,
                    context, task_outputs, result, exc, analysis_results, outcome,
                    clock, faults, trace, given, fetches, opc, messages, drains,
                    published, received, cleared, snapshot, quiet, drainRun, stock_data,
                    risk_metrics, waits >>

NextTier == RiskAssessment

SpecTier == InitTier /\ [][NextTier]_vars

----------------------------------------------------------------------------
(* What the claims speak about *)

Last(s) == s[Len(s)]

IsPut(x) == x \in {"put:start", "put:progress", "put:error", "put:complete"}

Count(s, x) == Cardinality({ i \in DOMAIN s : s[i] = x })

\* The messages the current (or last) execute_task call has put, in order
CallEvents ==
    LET n == Cardinality({ i \in DOMAIN trace : IsPut(trace[i]) })
    IN  SubSeq(published, Len(published) - n + 1, Len(published))

CountStatus(evs, st) == Cardinality({ i \in DOMAIN evs : evs[i].status = st })

\* The last execute_task call has returned / has raised
CallReturned == Len(trace) > 0 /\ Last(trace) = "return"
CallRaised == Len(trace) > 0 /\ Last(trace) = "raise"

\* analyze_stock has ended (and no new call has begun)
Ended == pc = "idle" /\ outcome.kind # "none"

\* The error field of a returned mapping holds something
ErrorSet(v) == "error" \in DOMAIN v.items

\* The entry of role i in a returned mapping
HasEntry(v, i) == ExpectedKeys[i] \in DOMAIN v.items

----------------------------------------------------------------------------
(* C1: whatever fails (agent or task construction, the pipeline, parsing, the
   risk metrics), analyze_stock returns a result whose error field holds a
   message; no exception leaves analyze_stock. *)
C1_NoExceptionLeaves ==
    Ended => /\ outcome.kind = "return"
             /\ (exc # "none" => ErrorSet(outcome.value))

(* C2: a returned result has either no error and an entry of the Market
   Research role, or an error and no analytical field (no role entry, no
   risk metrics); never an error together with analytical fields. *)
C2_ResultShape ==
    (Ended /\ outcome.kind = "return") =>
        \/ /\ ~ErrorSet(outcome.value)
           /\ HasEntry(outcome.value, 1)
        \/ /\ ErrorSet(outcome.value)
           /\ \A i \in 1..NumTasks : ~HasEntry(outcome.value, i)
           /\ "risk_metrics" \notin DOMAIN outcome.value.items

(* C3: the five tasks run one at a time in the order Market Research,
   Technical Analysis, Fundamental Analysis, Risk Analysis, Strategy; task N
   starts only after task N-1 has recorded its output, and task N is given the
   outputs of all the tasks 1..N-1. *)
C3_SequentialContext ==
    /\ Len(given) <= NumTasks
    /\ Len(task_outputs) <= Len(given)
    /\ Len(given) <= Len(task_outputs) + 1
    /\ \A i \in 1..Len(given) : given[i] = SubSeq(task_outputs, 1, i - 1)
    /\ \A k \in 1..Len(published) :
         LET done == Cardinality({ j \in 1..(k - 1) : published[j].status = "complete" })
         IN  /\ done < NumTasks
             /\ published[k].agent = Roles[done + 1]
             /\ published[k].status = "start" =>
                  published[k].message =
                      << "Starting task: ", Descriptions[done + 1], ticker >>

C3_Witness ==
    /\ pc = "parse"
    /\ Len(given) = NumTasks
    /\ Len(given[NumTasks]) = NumTasks - 1
    /\ given[2] = << task_outputs[1] >>
    /\ task_outputs[1] # task_outputs[2]

(* C4: when the model call fails with APIConnectionError on attempts 1 and 2
   and succeeds on attempt 3, execute_task returns the result and has put
   exactly one start message, at least one progress message per attempt and
   exactly one complete message, with no more than 3 attempts. *)
C4_OneStartPerCall ==
    (CallReturned /\ Count(trace, "put:error") = 2) =>
        /\ Count(trace, "call") <= StopAfterAttempt
        /\ CountStatus(CallEvents, "start") = 1
        /\ CountStatus(CallEvents, "progress") >= Count(trace, "call")
        /\ CountStatus(CallEvents, "complete") = 1
        /\ Last(CallEvents).result = Some(Last(task_outputs))

(* C5: when the model call fails with another error than APIConnectionError,
   execute_task makes exactly 1 attempt and analyze_stock returns a result
   with the error field set. *)
C5_NonTransientBecomesError ==
    (Ended /\ CallRaised /\ Count(trace, "put:error") = 1) =>
        /\ Count(trace, "call") = 1
        /\ outcome.kind = "return"
        /\ ErrorSet(outcome.value)

(* C6: when every attempt fails with APIConnectionError, execute_task makes
   exactly 3 attempts; what it raises is that APIConnectionError, not a
   wrapper, and a progress message describing the error is put before. *)
AllTransient ==
    \A i \in DOMAIN CallEvents :
        CallEvents[i].message[1] = "Error: " =>
            CallEvents[i].message[2] = "APIConnectionError"

C6_ExhaustedReraisesOriginal ==
    (CallRaised /\ AllTransient) =>
        /\ Count(trace, "call") = StopAfterAttempt
        /\ Count(trace, "put:error") = StopAfterAttempt
        /\ exc = "APIConnectionError"
        /\ trace[Len(trace) - 1] = "put:error"
        /\ Last(published).status = "progress"
        /\ Last(published).message = << "Error: ", "APIConnectionError" >>
        /\ (Ended => outcome.exc = "APIConnectionError")

C6_Witness ==
    /\ CallRaised
    /\ AllTransient
    /\ Count(trace, "call") = StopAfterAttempt
    /\ pc = "except"

(* C7: for every execute_task that returns, its messages are, in order, a
   start message with the task description, at least one progress message,
   and a complete message with the returned result; the start message is put
   before the model call begins and the complete message after it returns. *)
C7_StartProgressComplete ==
    CallReturned =>
        LET n == Len(trace)
            evs == CallEvents
            t == Len(task_outputs)
            lastStart == CHOOSE i \in DOMAIN trace :
                            /\ trace[i] = "put:start"
                            /\ \A j \in DOMAIN trace : trace[j] = "put:start" => j <= i
        IN  /\ evs[1].status = "start"
            /\ evs[1].message = << "Starting task: " >> \o tasks[t].description
            /\ evs[1].agent = tasks[t].agent
            /\ Last(evs).status = "complete"
            /\ Last(evs).result = Some(task_outputs[t])
            /\ \A i \in 1..(Len(evs) - 1) : evs[i].status # "complete"
            /\ \E i \in 2..(Len(evs) - 1) : evs[i].status = "progress"
            /\ trace[n - 1] = "put:complete"
            /\ trace[n - 2] = "call"
            /\ trace[n - 3] = "put:progress"
            /\ lastStart = n - 4

C7_Witness ==
    /\ CallReturned
    /\ Count(trace, "call") = 2
    /\ Len(task_outputs) = 3

----------------------------------------------------------------------------
(* Claims about the queue, with an observer thread *)

RunOf(m) == m.timestamp[1]

\* Timestamps in publish order
Earlier(a, b) ==
    \/ a.timestamp[1] < b.timestamp[1]
    \/ a.timestamp[1] = b.timestamp[1] /\ a.timestamp[2] < b.timestamp[2]

OfThisRun(m) == RunOf(m) = run

(* C8: with no put in between, a drain returns every queued message and leaves
   the queue empty, and the drain that follows returns nothing. *)
C8_DrainDestructiveIdempotent ==
    opc = "ret" =>
        /\ snapshot # None => (messages = snapshot[1] /\ agent_messages = << >>)
        /\ quiet => messages = << >>

C8_Witness ==
    /\ opc = "ret"
    /\ quiet
    /\ snapshot # None
    /\ drains = 2
    /\ received # << >>
    /\ messages = << >>

(* C9: with the analysing thread putting and the observer draining at the same
   time, what the drains return, one after the other, is a prefix of what was
   put: in put order, nothing lost, nothing twice. *)
C9_DrainsArePrefix ==
    /\ received \o SelectSeq(agent_messages, OfThisRun) = published
    /\ LET all == messages \o agent_messages
       IN  \A i \in 1..(Len(all) - 1) : Earlier(all[i], all[i + 1])

C9_Witness ==
    /\ opc = "ret"
    /\ drains = 2
    /\ pc = "exec_call"
    /\ messages # << >>
    /\ Len(received) > Len(messages)
    /\ snapshot = None

(* C10: analyze_stock empties the queue before an agent of the new run puts
   anything: a drain that starts after the clearing loop of a run has finished
   never returns a message put during an earlier run. *)
C10_NoStaleMessages ==
    /\ ClearedRun = run => \A i \in DOMAIN agent_messages : RunOf(agent_messages[i]) = run
    /\ opc # "idle" => \A i \in DOMAIN messages : RunOf(messages[i]) >= drainRun

C10_Witness ==
    /\ opc = "ret"
    /\ drainRun = 2
    /\ cleared > 0
    /\ messages # << >>

----------------------------------------------------------------------------
(* Claims about the risk metrics and the result of analyze_stock *)

\* The closing prices analyze_stock got from the stock_data tool
FetchedPrices == DictGet(stock_data[1], "price_history", << >>)

\* A mapping with an error field and nothing else
ErrorTagged(v) == v.type = "dict" /\ DOMAIN v.items = {"error"}

\* The pipeline of this call has run all its tasks
PipelineDone == Len(task_outputs) = NumTasks /\ pc \notin {"exec_complete"}

(* C11: given fewer than 2 prices (none, or a single one), assess_market_risk
   returns a mapping tagged with an error, without volatility, value_at_risk or
   sharpe_ratio; it does not raise. *)
C11_InsufficientDataIsError ==
    (risk_metrics # None /\ Len(FetchedPrices) < 2) =>
        /\ risk_metrics[1].kind = "return"
        /\ ErrorTagged(risk_metrics[1].value)

(* C12: the tier depends on the volatility alone, with strict comparisons: high
   above 0.30, medium above 0.15 and up to 0.30, low up to 0.15; 0.30 is
   medium, 0.15 is low, and every volatility gets exactly one tier. *)
Hundredths(v) == CHOOSE n \in 0..MaxVolatility : Fraction(n, 100) = v

C12_TierByVolatility ==
    (tier_call # None /\ tier_call[1].tier # None) =>
        LET v == tier_call[1].volatility
            t == tier_call[1].tier[1]
        IN  /\ t \in {"high", "medium", "low"}
            /\ ~v.nan =>
                 /\ Hundredths(v) > 30 => t = "high"
                 /\ (Hundredths(v) > 15 /\ Hundredths(v) <= 30) => t = "medium"
                 /\ Hundredths(v) <= 15 => t = "low"

C12_Witness ==
    /\ tier_call # None
    /\ tier_call[1].volatility = Fraction(30, 100)
    /\ tier_call[1].tier = Some("medium")

(* C13: parsing the last output never raises: when the output is not JSON (the
   text "not json" for one), _parse_results returns a mapping whose
   raw_analysis is the output text, unchanged, and whose timestamp is set. *)
C13_ParseFallsBack ==
    [][ pc = "parse" =>
          /\ pc' = "risk"
          /\ exc' = "none"
          /\ ~JsonDecodable(result[1]) =>
               /\ analysis_results'.type = "dict"
               /\ DOMAIN analysis_results'.items = {"raw_analysis", "timestamp"}
               /\ analysis_results'.items["raw_analysis"] = result[1]
               /\ analysis_results'.items["timestamp"] # << >> ]_vars

C13_Witness ==
    /\ pc = "risk"
    /\ result = Some(NotJson)
    /\ analysis_results.type = "dict"
    /\ "raw_analysis" \in DOMAIN analysis_results.items
    /\ analysis_results.items["raw_analysis"] = NotJson

\* What _parse_results made of the last output
Parsed == parse_results(result[1])

\* Every entry of mapping a is in mapping b, unchanged
Kept(a, b) ==
    \A k \in DOMAIN a.items : k \in DOMAIN b.items /\ b.items[k] = a.items[k]

\* The same for the entries under another key than risk_metrics
OthersKept(a, b) ==
    \A k \in DOMAIN a.items \ {"risk_metrics"} :
        k \in DOMAIN b.items /\ b.items[k] = a.items[k]

(* C14: a failing provider never ends a run. The stock data, financial metrics
   and search wrappers return an error value (a mapping with an error field
   only, or a text describing the error) for every failure, a missing ticker
   included; and when the stock data fetch after the pipeline fails,
   analyze_stock still returns the parsed output, with risk_metrics set to a
   mapping tagged with an error. *)
C14_ProviderFailureAbsorbed ==
    /\ \A t \in Tickers, yf \in YfOutcomes :
         /\ stock_data_wrapper(t, yf).kind = "return"
         /\ financial_metrics_wrapper(t, yf).kind = "return"
         /\ (t = "" \/ yf.raises) =>
              /\ ErrorTagged(stock_data_wrapper(t, yf).value)
              /\ ErrorTagged(financial_metrics_wrapper(t, yf).value)
    /\ \A raises \in BOOLEAN : search_wrapper(<< "query" >>, raises).kind = "return"
    /\ search_wrapper(<< "query" >>, TRUE).value[1] = "Search failed: "
    /\ (Ended /\ stock_data # None /\ ErrorSet(stock_data[1])) =>
         /\ outcome.kind = "return"
         /\ "risk_metrics" \in DOMAIN outcome.value.items
         /\ ErrorTagged(outcome.value.items["risk_metrics"])
         /\ OthersKept(Parsed, outcome.value)

(* C15: in a run that returns without an error, every role whose task was
   completed has an entry of its own in the result: the decoded mapping when
   its output was JSON, its raw text otherwise. No completed role is missing. *)
C15_EveryRoleHasEntry ==
    (Ended /\ outcome.kind = "return" /\ ~ErrorSet(outcome.value)) =>
        \A i \in 1..Len(task_outputs) :
            IF JsonDecodable(task_outputs[i])
            THEN HasEntry(outcome.value, i)
            ELSE DictGet(outcome.value, "raw_analysis", << >>) = task_outputs[i]

(* C16, as stated: in every run analyze_stock itself asks the stock data
   provider exactly once, for the ticker of the run and after the last task
   has completed; the risk_metrics it stores come from that fetch alone,
   whatever the agents answered, and are added without altering the entries
   the pipeline produced. *)
C16_FetchOnceEveryRun ==
    /\ Len(fetches) <= 1
    /\ fetches # << >> => (fetches[1] = ticker /\ PipelineDone)
    /\ Ended => Len(fetches) = 1
    /\ (Ended /\ outcome.kind = "return") =>
         /\ \E np \in NumpyBuilds :
              Return(outcome.value.items["risk_metrics"]) =
                  assess_market_risk(stock_data[1], np)
         /\ Kept(Parsed, outcome.value)

(* C16, amended: in every run whose pipeline completes, analyze_stock asks the
   stock data provider exactly once, for the ticker of the run and after the
   last task has completed; in a run that raises before, not at all. The
   risk_metrics it stores come from that fetch alone and are added without
   altering the other entries of the parsed output; an entry of the parsed
   output that is itself named risk_metrics is replaced. *)
C16_FetchOnceAfterPipeline ==
    /\ Len(fetches) <= 1
    /\ fetches # << >> => (fetches[1] = ticker /\ PipelineDone)
    /\ Ended => (Len(fetches) = 1 <=> PipelineDone)
    /\ (Ended /\ outcome.kind = "return") =>
         /\ \E np \in NumpyBuilds :
              Return(outcome.value.items["risk_metrics"]) =
                  assess_market_risk(stock_data[1], np)
         /\ DOMAIN outcome.value.items = DOMAIN Parsed.items \cup {"risk_metrics"}
         /\ OthersKept(Parsed, outcome.value)

C16_Witness ==
    /\ Ended
    /\ outcome.kind = "return"
    /\ fetches = << ticker >>
    /\ HasEntry(outcome.value, NumTasks)
    /\ "volatility" \in DOMAIN outcome.value.items["risk_metrics"].items
    /\ outcome.value.items["risk_metrics"].items["risk_assessment"] = "medium"

(* C17: between two attempts of a retried model call the agent waits 4 at
   least and 10 at most, a wait is never shorter than the one before, and
   there is no wait after the third attempt nor after a failure that is not
   an APIConnectionError. *)
C17_WaitsBetweenAttempts ==
    /\ \A i \in DOMAIN waits : waits[i] >= 4 /\ waits[i] <= 10
    /\ \A i \in 1..(Len(waits) - 1) : waits[i] <= waits[i + 1]
    /\ Len(waits) = Count(trace, "wait")
    /\ Len(waits) <= StopAfterAttempt - 1
    /\ \A i \in DOMAIN trace :
         trace[i] = "wait" =>
            /\ i > 1 /\ trace[i - 1] = "put:error"
            /\ i < Len(trace) => trace[i + 1] = "put:start"
    /\ (CallRaised \/ CallReturned) => Len(waits) = Count(trace, "call") - 1
    /\ (CallRaised /\ ~Retryable(exc)) =>
         /\ Len(waits) = Count(trace, "put:error") - 1
         /\ trace[Len(trace) - 1] = "put:error"

C17_Witness ==
    /\ CallRaised
    /\ Len(waits) = 2
    /\ ~Retryable(exc)
    /\ Count(trace, "call") = StopAfterAttempt

(* C18: draining never blocks: get_agent_messages and the clearing loop of
   analyze_stock always end, even when two threads drain the queue at once;
   no thread is ever left in get() on an empty queue. *)
C18_DrainNeverBlocks ==
    /\ ~(pc = "clear_get" /\ agent_messages = << >>)
    /\ ~(opc = "get" /\ agent_messages = << >>)

(* C19: whenever the pipeline ends without raising, analyze_stock returns a
   mapping with a risk_metrics entry, whatever the form of the last output: a
   JSON object, other JSON (a list, a number, a string, null), or no JSON. *)
C19_RiskMetricsAlwaysReturned ==
    (Ended /\ PipelineDone) =>
        /\ outcome.kind = "return"
        /\ outcome.value.type = "dict"
        /\ "risk_metrics" \in DOMAIN outcome.value.items

(* C20: a complete message is put only for an attempt whose model call
   returned: a failed attempt puts an "Error: ..." progress message and no
   complete message, so an execute_task call puts one complete message at
   most, and none when it ends by raising. *)
ErrorEvents(evs) ==
    Cardinality({ i \in DOMAIN evs :
                    evs[i].status = "progress" /\ evs[i].message[1] = "Error: " })

C20_CompleteOnlyOnReturn ==
    LET evs == CallEvents
        failed == Count(trace, "call") - Count(trace, "return")
                      - (IF pc \in {"exec_complete", "exec_error"} THEN 1 ELSE 0)
    IN  /\ CountStatus(evs, "complete") <= 1
        /\ CountStatus(evs, "complete") = Count(trace, "return")
        /\ CallRaised => CountStatus(evs, "complete") = 0
        /\ ErrorEvents(evs) = failed
        /\ \A i \in DOMAIN evs : evs[i].status = "complete" => i = Len(evs)

C20_Witness ==
    /\ CallReturned
    /\ ErrorEvents(CallEvents) = 2
    /\ CountStatus(CallEvents, "complete") = 1
    /\ Len(task_outputs) = 2

====
